---- MODULE Spec2Model ----
(***************************************************************************)
(* Model of crates/binstalk-types/src/cargo_toml_binstall/                 *)
(* package_formats.rs: the PkgFmt enumeration, its decomposition, its      *)
(* extension table and the pkg-url format guesser.                         *)
(*                                                                         *)
(* A Rust &str is modelled as a sequence of one-character strings, so     *)
(* that splitting on '.', letter case and leading separators are all       *)
(* computed character by character.  Option<T> is modelled as a sequence   *)
(* of length 0 (None) or 1 (Some(x)).                                      *)
(***************************************************************************)
EXTENDS Integers, Sequences, FiniteSets

VARIABLES pc, pkg_url, guessed, other_url, other_guessed,
          self, exts, decomposed, tfmt, converted, stem, ext

vars == <<pc, pkg_url, guessed, other_url, other_guessed,
          self, exts, decomposed, tfmt, converted, stem, ext>>

(***************************************************************************)
(* Option<T>                                                               *)
(***************************************************************************)
None == <<>>

Some(x) == <<x>>

is_some(o) == o # None

(***************************************************************************)
(* The enumerations                                                        *)
(***************************************************************************)
PkgFmt == {"Tar", "Tbz2", "Bz2", "Tgz", "Gz", "Txz", "Xz", "Tzstd", "Zst", "Zip", "Bin"}

TarBasedFmt == {"TarBasedFmt::Tar", "TarBasedFmt::Tbz2", "TarBasedFmt::Tgz",
                "TarBasedFmt::Txz", "TarBasedFmt::Tzstd"}

\* PkgFmtDecomposed::Tar(t); the other variants are the 1-tuples <<"Bz2">> ...
DecomposedTar(t) == <<"Tar", t>>

PkgFmtDecomposed == {DecomposedTar(t) : t \in TarBasedFmt}
                      \cup {<<"Bz2">>, <<"Gz">>, <<"Xz">>, <<"Zst">>, <<"Bin">>, <<"Zip">>}

(***************************************************************************)
(* String literals of the source, as character sequences                   *)
(***************************************************************************)
s_tar == <<"t", "a", "r">>
s_tbz2 == <<"t", "b", "z", "2">>
s_bz2 == <<"b", "z", "2">>
s_tgz == <<"t", "g", "z">>
s_gz == <<"g", "z">>
s_txz == <<"t", "x", "z">>
s_xz == <<"x", "z">>
s_tzstd == <<"t", "z", "s", "t", "d">>
s_tzst == <<"t", "z", "s", "t">>
s_zst == <<"z", "s", "t">>
s_exe == <<"e", "x", "e">>
s_bin == <<"b", "i", "n">>
s_zip == <<"z", "i", "p">>
dot == <<".">>

(***************************************************************************)
(* PkgFmt::decompose                                                       *)
(***************************************************************************)
decompose(f) ==
    CASE f = "Tar"   -> DecomposedTar("TarBasedFmt::Tar")
      [] f = "Tbz2"  -> DecomposedTar("TarBasedFmt::Tbz2")
      [] f = "Bz2"   -> <<"Bz2">>
      [] f = "Tgz"   -> DecomposedTar("TarBasedFmt::Tgz")
      [] f = "Gz"    -> <<"Gz">>
      [] f = "Txz"   -> DecomposedTar("TarBasedFmt::Txz")
      [] f = "Xz"    -> <<"Xz">>
      [] f = "Tzstd" -> DecomposedTar("TarBasedFmt::Tzstd")
      [] f = "Zst"   -> <<"Zst">>
      [] f = "Bin"   -> <<"Bin">>
      [] f = "Zip"   -> <<"Zip">>

\* from with the Tgz and Txz arms exchanged
from_swapped(fmt) ==
    CASE fmt = "TarBasedFmt::Tar"   -> "Tar"
      [] fmt = "TarBasedFmt::Tbz2"  -> "Tbz2"
      [] fmt = "TarBasedFmt::Tgz"   -> "Txz"
      [] fmt = "TarBasedFmt::Txz"   -> "Tgz"
      [] fmt = "TarBasedFmt::Tzstd" -> "Tzstd"

(***************************************************************************)
(* impl From<TarBasedFmt> for PkgFmt                                       *)
(***************************************************************************)
from(fmt) ==
    CASE fmt = "TarBasedFmt::Tar"   -> "Tar"
      [] fmt = "TarBasedFmt::Tbz2"  -> "Tbz2"
      [] fmt = "TarBasedFmt::Tgz"   -> "Tgz"
      [] fmt = "TarBasedFmt::Txz"   -> "Txz"
      [] fmt = "TarBasedFmt::Tzstd" -> "Tzstd"

\* extensions with ".exe" listed for Bin whatever is_windows is, and for Zip on windows
extensions_exe_everywhere(f, windows) ==
    CASE f = "Tar"   -> << dot \o s_tar >>
      [] f = "Tbz2"  -> << dot \o s_tbz2, dot \o s_tar \o dot \o s_bz2 >>
      [] f = "Bz2"   -> << dot \o s_bz2 >>
      [] f = "Tgz"   -> << dot \o s_tgz, dot \o s_tar \o dot \o s_gz >>
      [] f = "Gz"    -> << dot \o s_gz >>
      [] f = "Txz"   -> << dot \o s_txz, dot \o s_tar \o dot \o s_xz >>
      [] f = "Xz"    -> << dot \o s_xz >>
      [] f = "Tzstd" -> << dot \o s_tzstd, dot \o s_tzst, dot \o s_tar \o dot \o s_zst >>
      [] f = "Zst"   -> << dot \o s_zst >>
      [] f = "Bin"   -> << dot \o s_bin, <<>>, dot \o s_exe >>
      [] f = "Zip"   -> IF windows THEN << dot \o s_zip, dot \o s_exe >> ELSE << dot \o s_zip >>

\* extensions with the separator forgotten on the second spelling of Tgz
extensions_missing_dot(f, windows) ==
    CASE f = "Tar"   -> << dot \o s_tar >>
      [] f = "Tbz2"  -> << dot \o s_tbz2, dot \o s_tar \o dot \o s_bz2 >>
      [] f = "Bz2"   -> << dot \o s_bz2 >>
      [] f = "Tgz"   -> << dot \o s_tgz, s_tar \o dot \o s_gz >>
      [] f = "Gz"    -> << dot \o s_gz >>
      [] f = "Txz"   -> << dot \o s_txz, dot \o s_tar \o dot \o s_xz >>
      [] f = "Xz"    -> << dot \o s_xz >>
      [] f = "Tzstd" -> << dot \o s_tzstd, dot \o s_tzst, dot \o s_tar \o dot \o s_zst >>
      [] f = "Zst"   -> << dot \o s_zst >>
      [] f = "Bin"   -> IF windows
                          THEN << dot \o s_bin, <<>>, dot \o s_exe >>
                          ELSE << dot \o s_bin, <<>> >>
      [] f = "Zip"   -> << dot \o s_zip >>

(***************************************************************************)
(* PkgFmt::extensions                                                      *)
(***************************************************************************)
extensions(f, windows) ==
    CASE f = "Tar"   -> << dot \o s_tar >>
      [] f = "Tbz2"  -> << dot \o s_tbz2, dot \o s_tar \o dot \o s_bz2 >>
      [] f = "Bz2"   -> << dot \o s_bz2 >>
      [] f = "Tgz"   -> << dot \o s_tgz, dot \o s_tar \o dot \o s_gz >>
      [] f = "Gz"    -> << dot \o s_gz >>
      [] f = "Txz"   -> << dot \o s_txz, dot \o s_tar \o dot \o s_xz >>
      [] f = "Xz"    -> << dot \o s_xz >>
      [] f = "Tzstd" -> << dot \o s_tzstd, dot \o s_tzst, dot \o s_tar \o dot \o s_zst >>
      [] f = "Zst"   -> << dot \o s_zst >>
      [] f = "Bin"   -> IF windows
                          THEN << dot \o s_bin, <<>>, dot \o s_exe >>
                          ELSE << dot \o s_bin, <<>> >>
      [] f = "Zip"   -> << dot \o s_zip >>

\* rsplitn that does not yield an empty remainder
RECURSIVE rsplitn_skip_empty(_, _)
rsplitn_skip_empty(n, s) ==
    IF n = 0 \/ s = <<>> THEN <<>>
    ELSE LET dots == {i \in 1..Len(s) : s[i] = "."}
         IN IF n = 1 \/ dots = {}
              THEN <<s>>
              ELSE LET i == CHOOSE j \in dots : \A k \in dots : k <= j
                   IN <<SubSeq(s, i + 1, Len(s))>> \o rsplitn_skip_empty(n - 1, SubSeq(s, 1, i - 1))

(***************************************************************************)
(* str::rsplitn(n, '.'): the items the iterator yields, in order: the      *)
(* substrings between dots taken from the end of the string, at most n of  *)
(* them, the n-th being the whole remainder.                               *)
(***************************************************************************)
RECURSIVE rsplitn(_, _)
rsplitn(n, s) ==
    IF n = 0 THEN <<>>
    ELSE LET dots == {i \in 1..Len(s) : s[i] = "."}
         IN IF n = 1 \/ dots = {}
              THEN <<s>>
              ELSE LET i == CHOOSE j \in dots : \A k \in dots : k <= j
                   IN <<SubSeq(s, i + 1, Len(s))>> \o rsplitn(n - 1, SubSeq(s, 1, i - 1))

\* the k-th call of it.next(): Some(item) or None when the iterator is exhausted
next(it, k) == IF k <= Len(it) THEN Some(it[k]) ELSE None

\* the token table with the "tzst" spelling matched as bare zstd
match_token_tzst_bare(seg) ==
    CASE seg = s_tar   -> Some("Tar")
      [] seg = s_tbz2  -> Some("Tbz2")
      [] seg = s_bz2   -> Some("Bz2")
      [] seg = s_tgz   -> Some("Tgz")
      [] seg = s_gz    -> Some("Gz")
      [] seg = s_txz   -> Some("Txz")
      [] seg = s_xz    -> Some("Xz")
      [] seg = s_tzstd -> Some("Tzstd")
      [] seg = s_zst \/ seg = s_tzst -> Some("Zst")
      [] seg = s_exe \/ seg = s_bin -> Some("Bin")
      [] seg = s_zip   -> Some("Zip")
      [] OTHER         -> None

(***************************************************************************)
(* The token table of guess_pkg_format (the first match)                   *)
(***************************************************************************)
match_token(seg) ==
    CASE seg = s_tar   -> Some("Tar")
      [] seg = s_tbz2  -> Some("Tbz2")
      [] seg = s_bz2   -> Some("Bz2")
      [] seg = s_tgz   -> Some("Tgz")
      [] seg = s_gz    -> Some("Gz")
      [] seg = s_txz   -> Some("Txz")
      [] seg = s_xz    -> Some("Xz")
      [] seg = s_tzstd \/ seg = s_tzst -> Some("Tzstd")
      [] seg = s_zst   -> Some("Zst")
      [] seg = s_exe \/ seg = s_bin -> Some("Bin")
      [] seg = s_zip   -> Some("Zip")
      [] OTHER         -> None

\* the closure with the Zst arm missing
tar_based_no_zst(pkgfmt) ==
    CASE pkgfmt = "Bz2" -> "Tbz2"
      [] pkgfmt = "Gz"  -> "Tgz"
      [] pkgfmt = "Xz"  -> "Txz"
      [] OTHER          -> pkgfmt

\* the closure passed to guess.map: convert the guess to a tar-based format
tar_based(pkgfmt) ==
    CASE pkgfmt = "Bz2" -> "Tbz2"
      [] pkgfmt = "Gz"  -> "Tgz"
      [] pkgfmt = "Xz"  -> "Txz"
      [] pkgfmt = "Zst" -> "Tzstd"
      [] OTHER          -> pkgfmt

\* u8::to_ascii_lowercase on the letters that occur, and its extension to strings
LowerChar(c) ==
    CASE c = "A" -> "a"
      [] c = "G" -> "g"
      [] c = "R" -> "r"
      [] c = "T" -> "t"
      [] c = "Z" -> "z"
      [] OTHER   -> c

Lower(s) == [i \in 1..Len(s) |-> LowerChar(s[i])]

\* guess_pkg_format without the rejection of a bare "tar.<suffix>"
guess_pkg_format_no_reject(url) ==
    LET it == rsplitn(3, url)
    IN IF next(it, 1) = None
         THEN None
         ELSE LET guess == match_token(next(it, 1)[1])
              IN IF is_some(guess) /\ next(it, 2) = Some(s_tar) /\ is_some(next(it, 3))
                   THEN Some(tar_based(guess[1]))
                   ELSE guess

\* guess_pkg_format that retries the match on the next segment
guess_pkg_format_retry(url) ==
    LET it == rsplitn(3, url)
    IN IF next(it, 1) = None
         THEN None
         ELSE LET guess == match_token(next(it, 1)[1])
              IN IF is_some(guess) /\ next(it, 2) = Some(s_tar)
                   THEN IF is_some(next(it, 3))
                          THEN Some(tar_based(guess[1]))
                          ELSE None
                   ELSE IF is_some(guess) \/ next(it, 2) = None
                          THEN guess
                          ELSE match_token(next(it, 2)[1])

\* guess_pkg_format comparing segments with eq_ignore_ascii_case
guess_pkg_format_ignore_case(url) ==
    LET it == rsplitn(3, url)
    IN IF next(it, 1) = None
         THEN None
         ELSE LET guess == match_token(Lower(next(it, 1)[1]))
              IN IF is_some(guess) /\ next(it, 2) # None /\ Lower(next(it, 2)[1]) = s_tar
                   THEN IF is_some(next(it, 3))
                          THEN Some(tar_based(guess[1]))
                          ELSE None
                   ELSE guess

\* guess_pkg_format that wants a non-empty stem before ".tar"
guess_pkg_format_nonempty_stem(url) ==
    LET it == rsplitn(3, url)
    IN IF next(it, 1) = None
         THEN None
         ELSE LET guess == match_token(next(it, 1)[1])
              IN IF is_some(guess) /\ next(it, 2) = Some(s_tar)
                   THEN IF is_some(next(it, 3)) /\ next(it, 3) # Some(<<>>)
                          THEN Some(tar_based(guess[1]))
                          ELSE None
                   ELSE guess

(***************************************************************************)
(* PkgFmt::guess_pkg_format                                                *)
(***************************************************************************)
guess_pkg_format(url) ==
    LET it == rsplitn(3, url)
    IN IF next(it, 1) = None
         THEN None
         ELSE LET guess == match_token(next(it, 1)[1])
              IN IF is_some(guess) /\ next(it, 2) = Some(s_tar)
                   THEN IF is_some(next(it, 3))
                          THEN Some(tar_based(guess[1]))
                          ELSE None
                   ELSE guess

(***************************************************************************)
(* Inputs.  A pkg-url is any string; the ones explored are a prefix (a     *)
(* concatenation of at most MaxPrefixLen pieces, dots and "tar" included), *)
(* a second-to-last segment and a last segment, or fewer parts.            *)
(***************************************************************************)
MaxPrefixLen == 2

Pieces == {<<"a">>, dot, s_tar}

RECURSIVE Concats(_)
Concats(n) ==
    IF n = 0 THEN {<<>>}
    ELSE Concats(n - 1) \cup {s \o p : s \in Concats(n - 1), p \in Pieces}

Prefixes == Concats(MaxPrefixLen)

Stems == Prefixes

Tokens == {s_tar, s_tbz2, s_bz2, s_tgz, s_gz, s_txz, s_xz, s_tzstd, s_tzst,
           s_zst, s_exe, s_bin, s_zip}

LastSegs == Tokens \cup {<<>>, <<"G", "Z">>, <<"Z", "i", "p">>, <<"f", "o", "o">>}

SecondSegs == {s_tar, <<"T", "A", "R">>, <<"T", "a", "r">>, <<>>, <<"a">>, s_gz}

Urls == LastSegs
          \cup {s2 \o dot \o s1 : s2 \in SecondSegs, s1 \in LastSegs}
          \cup {p \o dot \o s2 \o dot \o s1 : p \in Prefixes, s2 \in SecondSegs, s1 \in LastSegs}

(***************************************************************************)
(* The dot-separated segments of a string, left to right (the vocabulary   *)
(* of the properties; the code itself only uses rsplitn).                  *)
(***************************************************************************)
RECURSIVE Segments(_)
Segments(s) ==
    IF \E i \in 1..Len(s) : s[i] = "."
      THEN LET i == CHOOSE j \in 1..Len(s) : s[j] = "." /\ \A k \in 1..(j - 1) : s[k] # "."
           IN <<SubSeq(s, 1, i - 1)>> \o Segments(SubSeq(s, i + 1, Len(s)))
      ELSE <<s>>

NumSegs(s) == Len(Segments(s))

LastSeg(s) == Segments(s)[NumSegs(s)]

\* only meaningful when NumSegs(s) >= 2
SecondLastSeg(s) == Segments(s)[NumSegs(s) - 1]

(***************************************************************************)
(* State machine: a caller of the module.  From the start it either        *)
(* guesses the format of a pkg-url (and then of a second pkg-url with the  *)
(* same last two segments under another prefix), or decomposes a format    *)
(* and converts the tar-based part back, or converts a TarBasedFmt and     *)
(* decomposes the result, or lists the extensions of a format and guesses  *)
(* the format of a stem followed by one of them.                           *)
(***************************************************************************)
Init ==
    /\ pc = "start"
    /\ pkg_url = <<>>
    /\ guessed = None
    /\ other_url = <<>>
    /\ other_guessed = None
    /\ self = None
    /\ exts = [w \in BOOLEAN |-> None]
    /\ decomposed = None
    /\ tfmt = None
    /\ converted = None
    /\ stem = <<>>
    /\ ext = <<>>

GuessPkgFormat(u) ==
    /\ pc = "start"
    /\ pkg_url' = u
    /\ guessed' = guess_pkg_format(u)
    /\ pc' = "guessed"
    /\ UNCHANGED <<other_url, other_guessed, self, exts, decomposed, tfmt, converted, stem, ext>>

GuessSameSuffix(p) ==
    /\ pc = "guessed"
    /\ NumSegs(pkg_url) >= 3
    /\ other_url' = p \o dot \o SecondLastSeg(pkg_url) \o dot \o LastSeg(pkg_url)
    /\ other_guessed' = guess_pkg_format(other_url')
    /\ pc' = "guessed_both"
    /\ UNCHANGED <<pkg_url, guessed, self, exts, decomposed, tfmt, converted, stem, ext>>

Decompose(f) ==
    /\ \/ pc = "start" /\ pc' = "decompose"
       \/ pc = "from" /\ converted = Some(f) /\ pc' = "from_decompose"
    /\ self' = Some(f)
    /\ decomposed' = Some(decompose(f))
    /\ UNCHANGED <<pkg_url, guessed, other_url, other_guessed, exts, tfmt, converted, stem, ext>>

From(t) ==
    /\ \/ pc = "start" /\ pc' = "from"
       \/ pc = "decompose" /\ decomposed = Some(DecomposedTar(t)) /\ pc' = "decompose_from"
    /\ tfmt' = Some(t)
    /\ converted' = Some(from(t))
    /\ UNCHANGED <<pkg_url, guessed, other_url, other_guessed, self, exts, decomposed, stem, ext>>

Extensions(f, w) ==
    /\ \/ pc = "start"
       \/ pc = "extensions" /\ self = Some(f) /\ exts[w] = None
    /\ self' = Some(f)
    /\ exts' = [exts EXCEPT ![w] = Some(extensions(f, w))]
    /\ pc' = "extensions"
    /\ UNCHANGED <<pkg_url, guessed, other_url, other_guessed, decomposed, tfmt, converted, stem, ext>>

GuessWithExtension(s, w, i) ==
    /\ pc = "extensions"
    /\ is_some(exts[w])
    /\ i \in 1..Len(exts[w][1])
    /\ stem' = s
    /\ ext' = exts[w][1][i]
    /\ pkg_url' = s \o exts[w][1][i]
    /\ guessed' = guess_pkg_format(pkg_url')
    /\ pc' = "ext_guessed"
    /\ UNCHANGED <<other_url, other_guessed, self, exts, decomposed, tfmt, converted>>

Next ==
    \/ \E u \in Urls : GuessPkgFormat(u)
    \/ \E p \in Prefixes : GuessSameSuffix(p)
    \/ \E f \in PkgFmt : Decompose(f)
    \/ \E t \in TarBasedFmt : From(t)
    \/ \E f \in PkgFmt, w \in BOOLEAN : Extensions(f, w)
    \/ \E s \in Stems, w \in BOOLEAN, i \in 1..3 : GuessWithExtension(s, w, i)

Spec == Init /\ [][Next]_vars

TypeOK ==
    /\ pc \in {"start", "guessed", "guessed_both", "decompose", "decompose_from",
               "from", "from_decompose", "extensions", "ext_guessed"}
    /\ guessed \in {None} \cup {Some(f) : f \in PkgFmt}
    /\ other_guessed \in {None} \cup {Some(f) : f \in PkgFmt}
    /\ self \in {None} \cup {Some(f) : f \in PkgFmt}
    /\ decomposed \in {None} \cup {Some(d) : d \in PkgFmtDecomposed}
    /\ tfmt \in {None} \cup {Some(t) : t \in TarBasedFmt}
    /\ converted \in {None} \cup {Some(f) : f \in PkgFmt}

(***************************************************************************)
(* Vocabulary of the properties                                            *)
(***************************************************************************)
\* pkg_url and guessed hold the argument and the result of a guess_pkg_format call
Called == pc \in {"guessed", "guessed_both", "ext_guessed"}

\* the token table as the specification lists it
TokenTable ==
    {<<s_tar, "Tar">>, <<s_tbz2, "Tbz2">>, <<s_bz2, "Bz2">>, <<s_tgz, "Tgz">>,
     <<s_gz, "Gz">>, <<s_txz, "Txz">>, <<s_xz, "Xz">>, <<s_tzstd, "Tzstd">>,
     <<s_tzst, "Tzstd">>, <<s_zst, "Zst">>, <<s_exe, "Bin">>, <<s_bin, "Bin">>,
     <<s_zip, "Zip">>}

TableValue(seg) ==
    IF \E e \in TokenTable : e[1] = seg
      THEN Some((CHOOSE e \in TokenTable : e[1] = seg)[2])
      ELSE None

\* the tar-combined format a token stands for after ".tar"
TarCombined ==
    {<<s_bz2, "Tbz2">>, <<s_gz, "Tgz">>, <<s_xz, "Txz">>, <<s_zst, "Tzstd">>,
     <<s_tar, "Tar">>, <<s_tbz2, "Tbz2">>, <<s_tgz, "Tgz">>, <<s_txz, "Txz">>,
     <<s_tzstd, "Tzstd">>, <<s_tzst, "Tzstd">>, <<s_exe, "Bin">>, <<s_bin, "Bin">>,
     <<s_zip, "Zip">>}

BareCompressors == {"Bz2", "Gz", "Xz", "Zst"}

TarFormats == {"Tar", "Tbz2", "Tgz", "Txz", "Tzstd"}

\* what the result may depend on: last segment, second-to-last segment, anything before
Key(s) ==
    <<LastSeg(s), IF NumSegs(s) >= 2 THEN Some(SecondLastSeg(s)) ELSE None, NumSegs(s) >= 3>>

StartsWithDot(e) == Len(e) > 0 /\ e[1] = "."

IsPrefixOf(a, b) == Len(a) <= Len(b) /\ SubSeq(b, 1, Len(a)) = a

Range(q) == {q[i] : i \in 1..Len(q)}

(***************************************************************************)
(* C1: with at least 3 segments, second-to-last "tar" and a table token    *)
(* last, guess_pkg_format returns the tar-combined format of the token,    *)
(* never a bare compressor.                                                *)
(***************************************************************************)
C1_TarUpgrade ==
    (Called /\ NumSegs(pkg_url) >= 3 /\ SecondLastSeg(pkg_url) = s_tar
            /\ LastSeg(pkg_url) \in Tokens)
      => /\ \E e \in TarCombined : e[1] = LastSeg(pkg_url) /\ guessed = Some(e[2])
         /\ guessed \notin {Some(f) : f \in BareCompressors}

C1_Witness ==
    /\ pc = "guessed"
    /\ pkg_url = dot \o s_tar \o dot \o s_zst
    /\ guessed = Some("Tzstd")

(***************************************************************************)
(* C2: a string of exactly two segments whose first is "tar" yields None,  *)
(* whatever the suffix.                                                    *)
(***************************************************************************)
C2_BareTarRejected ==
    (Called /\ NumSegs(pkg_url) = 2 /\ Segments(pkg_url)[1] = s_tar)
      => guessed = None

C2_Witness ==
    /\ pc = "guessed"
    /\ pkg_url = s_tar \o dot \o s_zip
    /\ guessed = None

(***************************************************************************)
(* C3: when there is no second-to-last segment, or it is not "tar", the    *)
(* result is exactly the table value of the last segment.                  *)
(***************************************************************************)
C3_TableValueUnmodified ==
    (Called /\ (NumSegs(pkg_url) = 1 \/ SecondLastSeg(pkg_url) # s_tar))
      => guessed = TableValue(LastSeg(pkg_url))

C3_Witness ==
    /\ pc = "guessed"
    /\ pkg_url = dot \o s_gz \o dot \o s_tzst
    /\ guessed = Some("Tzstd")

(***************************************************************************)
(* C4: when the last segment is not a table token the result is None;      *)
(* earlier segments are not used.                                          *)
(***************************************************************************)
C4_UnknownLastSegment ==
    (Called /\ LastSeg(pkg_url) \notin Tokens) => guessed = None

C4_Witness ==
    /\ pc = "guessed"
    /\ pkg_url = <<"a">> \o dot \o s_tar \o dot \o <<"f", "o", "o">>
    /\ guessed = None

(***************************************************************************)
(* C5: decompose and from are mutually inverse on the tar-based formats,   *)
(* and decompose yields Tar(_) exactly for Tar, Tbz2, Tgz, Txz, Tzstd.     *)
(***************************************************************************)
C5_DecomposeFromInverse ==
    /\ pc = "decompose_from" => converted = self
    /\ pc = "from_decompose" => decomposed = Some(DecomposedTar(tfmt[1]))
    /\ pc \in {"decompose", "decompose_from", "from_decompose"}
         => (decomposed[1][1] = "Tar" <=> self[1] \in TarFormats)

C5_Witness ==
    /\ pc = "decompose_from"
    /\ self = Some("Txz")
    /\ converted = Some("Txz")

(***************************************************************************)
(* C6: is_windows changes the result of extensions only for Bin, where it  *)
(* appends ".exe".                                                         *)
(***************************************************************************)
C6_WindowsOnlyBin ==
    (pc = "extensions" /\ is_some(exts[TRUE]) /\ is_some(exts[FALSE]))
      => IF self = Some("Bin")
           THEN /\ (dot \o s_exe) \in Range(exts[TRUE][1])
                /\ (dot \o s_exe) \notin Range(exts[FALSE][1])
                /\ IsPrefixOf(exts[FALSE][1], exts[TRUE][1])
           ELSE exts[TRUE] = exts[FALSE]

C6_Witness ==
    /\ pc = "extensions"
    /\ self = Some("Bin")
    /\ is_some(exts[TRUE])
    /\ is_some(exts[FALSE])
    /\ exts[TRUE] # exts[FALSE]

C8_CaseSensitive ==
    Called =>
      /\ (LastSeg(pkg_url) \notin Tokens /\ Lower(LastSeg(pkg_url)) \in Tokens)
           => guessed = None
      /\ (NumSegs(pkg_url) >= 3 /\ SecondLastSeg(pkg_url) # s_tar
                                /\ Lower(SecondLastSeg(pkg_url)) = s_tar)
           => guessed = TableValue(LastSeg(pkg_url))

C8_Witness ==
    /\ pc = "guessed"
    /\ pkg_url = <<"a">> \o dot \o <<"T", "A", "R">> \o dot \o s_gz
    /\ guessed = Some("Gz")

(***************************************************************************)
(* C9: two strings with the same last segment, the same second-to-last     *)
(* segment and the same answer to "does anything precede it" get the same  *)
(* result.                                                                 *)
(***************************************************************************)
C9_DependsOnlyOnKey ==
    (pc = "guessed_both" /\ Key(pkg_url) = Key(other_url))
      => other_guessed = guessed

C9_Witness ==
    /\ pc = "guessed_both"
    /\ pkg_url = s_tar \o dot \o dot \o s_tar \o dot \o s_gz
    /\ other_url = dot \o s_tar \o dot \o s_gz
    /\ Key(pkg_url) = Key(other_url)
    /\ guessed = Some("Tgz")
    /\ other_guessed = Some("Tgz")

(***************************************************************************)
(* C10: a stem whose last segment is not "tar", followed by a non-empty    *)
(* extension of a format, is guessed as that format.                       *)
(***************************************************************************)
C10_ExtensionsGuessAgree ==
    (pc = "ext_guessed" /\ ext # <<>> /\ LastSeg(stem) # s_tar)
      => guessed = self

C10_Witness ==
    /\ pc = "ext_guessed"
    /\ stem = <<>>
    /\ ext = dot \o s_tar \o dot \o s_bz2
    /\ self = Some("Tbz2")
    /\ guessed = Some("Tbz2")
====
